---- MODULE Spec2Model ----
(***************************************************************************)
(* Model of pkg/experiment/local: the streaming flag-config client         *)
(* (flagConfigStreamApiV2: Connect, Close, the background loop and its     *)
(* closeAllAndNotify) and the evaluation entry point Client.EvaluateV2.    *)
(*                                                                         *)
(* Goroutines are interleaved at the points where the Go code can be       *)
(* preempted with an observable effect: acquiring a.lock, a select, a      *)
(* callback invocation, the start of a goroutine.  An unrecovered panic    *)
(* ends the process: once panicked is TRUE no action is enabled.           *)
(***************************************************************************)
EXTENDS Integers, Sequences, FiniteSets, TLC

\* ------------------------------------------------------------------ bounds
\* Connect() calls (each opens at most one stream).
MaxConn == 2
\* Messages the server sends over all streams, numbered in sending order.
MaxMsg == 3
\* EvaluateV2 calls.
MaxEval == 2
\* AssignmentService.Track calls.
MaxTrack == 4
\* Capacity of the assignment filter's cache (AssignmentConfig.CacheCapacity).
CacheCapacity == 2
\* Initialize calls.
MaxInit == 3
\* FlagMetadata calls, and changes a caller makes to the maps it got.
MaxMeta == 2
MaxMutate == 2

Conn == 1..MaxConn
Ver == 1..MaxMsg

VARIABLES
    \* flagConfigStreamApiV2 fields
    hasInit,        \* OnInitUpdate != nil
    hasUpd,         \* OnUpdate != nil
    hasErr,         \* OnError != nil
    urlOk,          \* url.Parse(a.ServerURL) succeeds
    lock,           \* a.lock: "free", "Connect" or "notify" (closeAllAndNotify)
    stopCh,         \* a.stopCh: 0 is nil, c is the channel made by connection c
    \* per connection (one per Connect() call that opened a stream)
    stopClosed,     \* how many times close() ran on connection c's stopCh
    stream,         \* "none", "open" (after stream.Connect), "closed" (after closeStream)
    streamCloses,   \* how many times closeStream() ran for connection c
    loop,           \* position of connection c's background goroutine
    loopErr,        \* the error the loop hands to closeAllAndNotify
    errCalls,       \* invocations of OnError for connection c
    initCalls,      \* callbacks Connect() invoked with connection c's first message
    cbResult,       \* what that callback returned
    ret,            \* what Connect() returned for connection c
    first,          \* parsed flags of connection c's first message (its version, 0: none)
    \* the goroutine calling Connect()
    cpc,            \* "idle", "waitLock", "select", "callback", "start", "return"
    cur,            \* connection being set up by the Connect() in flight
    nconn,          \* Connect() calls that took the lock so far
    \* environment and observers
    nextVer,        \* version of the next message the server sends
    bad,            \* versions whose payload was malformed
    pending,        \* spawned "go a.OnUpdate(flags)" not yet run: <<c, ver>>
    store,          \* version last handed to an update callback (0: none)
    updCalls,       \* versions handed to OnUpdate/OnInitUpdate, per connection
    panicked,       \* an unrecovered panic ended the process
    closedSinceCall, \* a Close() returned after the latest Connect() was called
    stoppedByClose, \* connections whose stopCh a Close() closed
    lateUpd,        \* update callbacks started for connection c after that Close()
                    \* returned (afterClose), and after its loop ended (afterRelease)
    \* Client (assignment_service.go) and its collaborators
    snapshot,       \* flagConfigStorage: the published flag configs
    cohortStore,    \* cohortStorage: cohort id -> members
    hasAS,          \* c.assignmentService != nil
    user,           \* the *experiment.User the caller passes (reused across calls)
    epc,            \* EvaluateV2 in flight: "idle", "enrich", "sort", "engine", "track", "done"
    eFlagConfigs,   \* its local flagConfigs
    eKeys,          \* its flagKeys argument
    eSorted,        \* its sortedFlags
    eVariants,      \* its variants map
    eRet,           \* what it returned: [variants, err]
    eEngine,        \* it has invoked c.engine.Evaluate
    eTracked,       \* it has submitted an assignment to Track
    nEval,          \* EvaluateV2 calls so far
    eReads,         \* the flag configs each step of the call worked on: <<use, flags>>
    \* AssignmentService and its filter
    now,            \* the wall clock, in milliseconds
    filter,         \* the filter's cache: identities, most recently used first
    evictLog,       \* identities the cache evicted, in order
    emitted,        \* events handed to the event transport, in order
    tpc,            \* position of each goroutine calling Track: "idle", "check", "emit"
    tAsg,           \* the assignment it passed
    tDone,          \* identities of the Track calls that returned
    nTrack,         \* Track calls so far
    \* toEvent on its own
    evAsg,          \* the assignment handed to toEvent
    evOut,          \* the event it returned
    \* the client registry
    clients,        \* clients: api key -> client instance (0: nil)
    initMutex,      \* initMutex: "free" or the goroutine holding it
    ipc,            \* position of each goroutine calling Initialize
    iKey,           \* its apiKey argument
    iCfg,           \* its config argument
    iClient,        \* its local variable client (0: nil)
    inst,           \* the Client instances created, by number: [apiKey, config]
    iRets,          \* what the calls returned: [apiKey, config, client]
    nInit,          \* Initialize calls so far
    \* FlagMetadata
    heap,           \* the Go maps that exist, by address
    metaOf,         \* storage: flag key -> [kind, addr]: "absent", "nil" Metadata or a "map"
    stored0,        \* the entries of the stored metadata as published
    mKey,           \* flagKey of the latest FlagMetadata call
    mRet,           \* what it returned, [kind, addr]: "none" yet, "nil" or a "map"
    nMeta,          \* FlagMetadata calls so far
    nMutate         \* changes made to returned maps so far

cfgVars == <<hasInit, hasUpd, hasErr, urlOk>>
connVars == <<stopClosed, stream, streamCloses, loop, loopErr, errCalls, initCalls, cbResult, ret, first>>
callVars == <<cpc, cur, nconn>>
envVars == <<nextVer, bad, pending, store, updCalls>>
lateVars == <<stoppedByClose, lateUpd>>
streamVars == <<cfgVars, lock, stopCh, connVars, callVars, envVars, panicked, closedSinceCall, lateVars>>

pipeVars == <<snapshot, cohortStore, hasAS, user, epc, eFlagConfigs, eKeys, eSorted, eVariants,
              eRet, eEngine, eTracked, nEval, eReads>>

trackVars == <<now, filter, evictLog, emitted, tpc, tAsg, tDone, nTrack>>

eventVars == <<evAsg, evOut>>

regVars == <<clients, initMutex, ipc, iKey, iCfg, iClient, inst, iRets, nInit>>

metaVars == <<heap, metaOf, stored0, mKey, mRet, nMeta, nMutate>>

svcVars == <<trackVars, eventVars, regVars, metaVars>>

evalVars == <<pipeVars, svcVars>>

vars == <<streamVars, evalVars>>

\* ------------------------------------------------------------ parseData
\* A payload is [ver, wellFormed]; json.Unmarshal fails on a malformed one,
\* otherwise the flags are re-keyed into a map (identified by its version).
parseData(data) ==
    IF data.wellFormed
    THEN [err |-> FALSE, flags |-> data.ver]
    ELSE [err |-> TRUE, flags |-> 0]

Payloads == {[ver |-> nextVer, wellFormed |-> w] : w \in BOOLEAN}

\* ------------------------------------------------------------- helpers
\* closeStream: stream.Cancel(); close(streamMsgCh); close(streamErrCh)
closeStream(c) ==
    /\ stream' = [stream EXCEPT ![c] = "closed"]
    /\ streamCloses' = [streamCloses EXCEPT ![c] = @ + 1]

\* closeInternal: close a.stopCh if it is set and forget it.  Closing a
\* closed channel panics.
closeInternal ==
    IF stopCh # 0
    THEN /\ stopClosed' = [stopClosed EXCEPT ![stopCh] = @ + 1]
         /\ panicked' = (stopClosed[stopCh] >= 1)
         /\ stopCh' = 0
    ELSE UNCHANGED <<stopClosed, panicked, stopCh>>

StreamInit ==
    /\ hasInit \in BOOLEAN
    /\ hasUpd \in BOOLEAN
    /\ hasErr \in BOOLEAN
    /\ urlOk \in BOOLEAN
    /\ lock = "free"
    /\ stopCh = 0
    /\ stopClosed = [c \in Conn |-> 0]
    /\ stream = [c \in Conn |-> "none"]
    /\ streamCloses = [c \in Conn |-> 0]
    /\ loop = [c \in Conn |-> "none"]
    /\ loopErr = [c \in Conn |-> "none"]
    /\ errCalls = [c \in Conn |-> 0]
    /\ initCalls = [c \in Conn |-> <<>>]
    /\ cbResult = [c \in Conn |-> "none"]
    /\ ret = [c \in Conn |-> "pending"]
    /\ first = [c \in Conn |-> 0]
    /\ cpc = "idle"
    /\ cur = 0
    /\ nconn = 0
    /\ nextVer = 1
    /\ bad = {}
    /\ pending = {}
    /\ store = 0
    /\ updCalls = [c \in Conn |-> {}]
    /\ panicked = FALSE
    /\ closedSinceCall = FALSE
    /\ stoppedByClose = {}
    /\ lateUpd = [c \in Conn |-> [afterClose |-> 0, afterRelease |-> 0]]

\* ---------------------------------------------------------------- Connect
\* A goroutine calls Connect() and blocks on a.lock.Lock().
ConnectCall ==
    /\ ~panicked
    /\ UNCHANGED evalVars
    /\ cpc = "idle"
    /\ nconn < MaxConn
    /\ cpc' = "waitLock"
    /\ closedSinceCall' = FALSE
    /\ UNCHANGED <<cfgVars, lock, stopCh, connVars, cur, nconn, envVars, panicked, lateVars>>

\* Lines 52-73: take the lock, closeInternal, parse the URL, open the stream.
\* Every call gets the next connection number, also one that never opens a
\* stream because url.Parse fails.
ConnectLock ==
    /\ ~panicked
    /\ UNCHANGED evalVars
    /\ cpc = "waitLock"
    /\ lock = "free"
    /\ lock' = "Connect"
    /\ closeInternal
    /\ nconn' = nconn + 1
    /\ cur' = nconn + 1
    /\ IF urlOk
       THEN /\ stream' = [stream EXCEPT ![nconn + 1] = "open"]
            /\ cpc' = "select"
            /\ UNCHANGED ret
       ELSE /\ ret' = [ret EXCEPT ![nconn + 1] = "urlErr"]
            /\ cpc' = "return"
            /\ UNCHANGED stream
    /\ UNCHANGED <<cfgVars, streamCloses, loop, loopErr, errCalls, initCalls, cbResult, first,
                   envVars, closedSinceCall, lateVars>>

\* Lines 84-90: the first message wins the select and is parsed.
ConnectFirstMsg ==
    /\ ~panicked
    /\ UNCHANGED evalVars
    /\ cpc = "select"
    /\ stream[cur] = "open"
    /\ nextVer <= MaxMsg
    /\ \E data \in Payloads :
         LET p == parseData(data) IN
         /\ nextVer' = nextVer + 1
         /\ IF p.err
            THEN /\ bad' = bad \cup {data.ver}
                 /\ closeStream(cur)
                 /\ ret' = [ret EXCEPT ![cur] = "corrupt"]
                 /\ cpc' = "return"
                 /\ UNCHANGED first
            ELSE /\ first' = [first EXCEPT ![cur] = p.flags]
                 /\ cpc' = IF hasInit \/ hasUpd THEN "callback" ELSE "start"
                 /\ UNCHANGED <<bad, stream, streamCloses, ret>>
    /\ UNCHANGED <<cfgVars, lock, stopCh, stopClosed, loop, loopErr, errCalls, initCalls, cbResult,
                   cur, nconn, pending, store, updCalls, panicked, closedSinceCall, lateVars>>

\* A Connect() that prefers OnUpdate to OnInitUpdate for the first message.
ConnectInitCallback_PrefersOnUpdate ==
    /\ ~panicked
    /\ UNCHANGED evalVars
    /\ cpc = "callback"
    /\ \E r \in {"nil", "cbErr"} :
         /\ initCalls' = [initCalls EXCEPT ![cur] =
                            IF hasUpd THEN Append(@, [cb |-> "OnUpdate", flags |-> first[cur]])
                            ELSE IF hasInit THEN Append(@, [cb |-> "OnInitUpdate", flags |-> first[cur]])
                            ELSE @]
         /\ cbResult' = [cbResult EXCEPT ![cur] = r]
         /\ updCalls' = [updCalls EXCEPT ![cur] = @ \cup {first[cur]}]
         /\ IF r = "nil"
            THEN /\ store' = first[cur]
                 /\ cpc' = "start"
                 /\ UNCHANGED <<stream, streamCloses, ret>>
            ELSE /\ closeStream(cur)
                 /\ ret' = [ret EXCEPT ![cur] = r]
                 /\ cpc' = "return"
                 /\ UNCHANGED store
    /\ UNCHANGED <<cfgVars, lock, stopCh, stopClosed, loop, loopErr, errCalls, first,
                   cur, nconn, nextVer, bad, pending, panicked, closedSinceCall, lateVars>>

\* Lines 91-99: OnInitUpdate if set, else OnUpdate if set; its error aborts.
ConnectInitCallback ==
    /\ ~panicked
    /\ UNCHANGED evalVars
    /\ cpc = "callback"
    /\ \E r \in {"nil", "cbErr"} :
         /\ initCalls' = [initCalls EXCEPT ![cur] =
                            IF hasInit THEN Append(@, [cb |-> "OnInitUpdate", flags |-> first[cur]])
                            ELSE IF hasUpd THEN Append(@, [cb |-> "OnUpdate", flags |-> first[cur]])
                            ELSE @]
         /\ cbResult' = [cbResult EXCEPT ![cur] = r]
         /\ updCalls' = [updCalls EXCEPT ![cur] = @ \cup {first[cur]}]
         /\ IF r = "nil"
            THEN /\ store' = first[cur]
                 /\ cpc' = "start"
                 /\ UNCHANGED <<stream, streamCloses, ret>>
            ELSE /\ closeStream(cur)
                 /\ ret' = [ret EXCEPT ![cur] = r]
                 /\ cpc' = "return"
                 /\ UNCHANGED store
    /\ UNCHANGED <<cfgVars, lock, stopCh, stopClosed, loop, loopErr, errCalls, first,
                   cur, nconn, nextVer, bad, pending, panicked, closedSinceCall, lateVars>>

\* Lines 100-103: a transport error wins the select.
ConnectStreamErr ==
    /\ ~panicked
    /\ UNCHANGED evalVars
    /\ cpc = "select"
    /\ stream[cur] = "open"
    /\ closeStream(cur)
    /\ ret' = [ret EXCEPT ![cur] = "transportErr"]
    /\ cpc' = "return"
    /\ UNCHANGED <<cfgVars, lock, stopCh, stopClosed, loop, loopErr, errCalls, initCalls, cbResult,
                   first, cur, nconn, envVars, panicked, closedSinceCall, lateVars>>

\* A Connect() that reports the timeout but leaves the stream open.
ConnectTimeout_NoCloseStream ==
    /\ ~panicked
    /\ UNCHANGED evalVars
    /\ cpc = "select"
    /\ ret' = [ret EXCEPT ![cur] = "timeout"]
    /\ cpc' = "return"
    /\ UNCHANGED <<cfgVars, lock, stopCh, stopClosed, stream, streamCloses, loop, loopErr, errCalls,
                   initCalls, cbResult, first, cur, nconn, envVars, panicked, closedSinceCall, lateVars>>

\* Lines 104-107: time.After(connectionTimeout) wins the select.
ConnectTimeout ==
    /\ ~panicked
    /\ UNCHANGED evalVars
    /\ cpc = "select"
    /\ closeStream(cur)
    /\ ret' = [ret EXCEPT ![cur] = "timeout"]
    /\ cpc' = "return"
    /\ UNCHANGED <<cfgVars, lock, stopCh, stopClosed, loop, loopErr, errCalls, initCalls, cbResult,
                   first, cur, nconn, envVars, panicked, closedSinceCall, lateVars>>

\* Lines 110-154: make stopCh, publish it in a.stopCh, start the loop.
ConnectStart ==
    /\ ~panicked
    /\ UNCHANGED evalVars
    /\ cpc = "start"
    /\ stopCh' = cur
    /\ loop' = [loop EXCEPT ![cur] = "select"]
    /\ ret' = [ret EXCEPT ![cur] = "nil"]
    /\ cpc' = "return"
    /\ UNCHANGED <<cfgVars, lock, stopClosed, stream, streamCloses, loopErr, errCalls, initCalls,
                   cbResult, first, cur, nconn, envVars, panicked, closedSinceCall, lateVars>>

\* The deferred a.lock.Unlock() runs and Connect() returns.
ConnectReturn ==
    /\ ~panicked
    /\ UNCHANGED evalVars
    /\ cpc = "return"
    /\ lock' = "free"
    /\ cpc' = "idle"
    /\ cur' = 0
    /\ UNCHANGED <<cfgVars, stopCh, connVars, nconn, envVars, panicked, closedSinceCall, lateVars>>

\* ------------------------------------------------------------------ Close
\* Lines 179-184: Close() takes the lock, runs closeInternal, unlocks.
Close ==
    /\ ~panicked
    /\ UNCHANGED evalVars
    /\ lock = "free"
    /\ closeInternal
    /\ closedSinceCall' = TRUE
    /\ stoppedByClose' = IF stopCh # 0 THEN stoppedByClose \cup {stopCh} ELSE stoppedByClose
    /\ UNCHANGED <<cfgVars, lock, stream, streamCloses, loop, loopErr, errCalls, initCalls,
                   cbResult, ret, first, callVars, envVars, lateUpd>>

\* -------------------------------------------------------- background loop
\* Lines 131-133: the select takes <-stopCh (the channel is closed).
LoopStop(c) ==
    /\ ~panicked
    /\ UNCHANGED evalVars
    /\ loop[c] = "select"
    /\ stopClosed[c] >= 1
    /\ closeStream(c)
    /\ loop' = [loop EXCEPT ![c] = "done"]
    /\ UNCHANGED <<cfgVars, lock, stopCh, stopClosed, loopErr, errCalls, initCalls, cbResult, ret,
                   first, callVars, envVars, panicked, closedSinceCall, lateVars>>

\* Lines 134-145: the select takes a message; a malformed one goes to
\* closeAllAndNotify, a good one is handed to "go a.OnUpdate(flags)".
LoopRecvMsg(c) ==
    /\ ~panicked
    /\ UNCHANGED evalVars
    /\ loop[c] = "select"
    /\ stream[c] = "open"
    /\ nextVer <= MaxMsg
    /\ \E data \in Payloads :
         LET p == parseData(data) IN
         /\ nextVer' = nextVer + 1
         /\ IF p.err
            THEN /\ bad' = bad \cup {data.ver}
                 /\ loopErr' = [loopErr EXCEPT ![c] = "corrupt"]
                 /\ loop' = [loop EXCEPT ![c] = "notifyWait"]
                 /\ UNCHANGED pending
            ELSE /\ pending' = IF hasUpd THEN pending \cup {<<c, p.flags>>} ELSE pending
                 /\ UNCHANGED <<bad, loopErr, loop>>
    /\ UNCHANGED <<cfgVars, lock, stopCh, stopClosed, stream, streamCloses, errCalls, initCalls,
                   cbResult, ret, first, callVars, store, updCalls, panicked, closedSinceCall, lateVars>>

\* Lines 146-149: the select takes a transport error.
LoopRecvErr(c) ==
    /\ ~panicked
    /\ UNCHANGED evalVars
    /\ loop[c] = "select"
    /\ stream[c] = "open"
    /\ loopErr' = [loopErr EXCEPT ![c] = "transport"]
    /\ loop' = [loop EXCEPT ![c] = "notifyWait"]
    /\ UNCHANGED <<cfgVars, lock, stopCh, stopClosed, stream, streamCloses, errCalls, initCalls,
                   cbResult, ret, first, callVars, envVars, panicked, closedSinceCall, lateVars>>

\* A closeAllAndNotify that leaves a.stopCh as it is.
NotifyLock_KeepsStopCh(c) ==
    /\ ~panicked
    /\ UNCHANGED evalVars
    /\ loop[c] = "notifyWait"
    /\ lock = "free"
    /\ closeStream(c)
    /\ stopClosed' = [stopClosed EXCEPT ![c] = @ + 1]
    /\ IF stopClosed[c] >= 1
       THEN /\ panicked' = TRUE
            /\ loop' = [loop EXCEPT ![c] = "panicked"]
            /\ UNCHANGED lock
       ELSE /\ lock' = "notify"
            /\ loop' = [loop EXCEPT ![c] = "onError"]
            /\ UNCHANGED panicked
    /\ UNCHANGED <<cfgVars, stopCh, loopErr, errCalls, initCalls, cbResult, ret, first,
                   callVars, envVars, closedSinceCall, lateVars>>

\* Lines 114-121: closeAllAndNotify gets the lock, closes the stream, clears
\* a.stopCh if it is still this connection's, and closes the local stopCh;
\* that close panics when the channel has been closed before.
NotifyLock(c) ==
    /\ ~panicked
    /\ UNCHANGED evalVars
    /\ loop[c] = "notifyWait"
    /\ lock = "free"
    /\ closeStream(c)
    /\ stopCh' = IF stopCh = c THEN 0 ELSE stopCh
    /\ stopClosed' = [stopClosed EXCEPT ![c] = @ + 1]
    /\ IF stopClosed[c] >= 1
       THEN /\ panicked' = TRUE
            /\ loop' = [loop EXCEPT ![c] = "panicked"]
            /\ UNCHANGED lock
       ELSE /\ lock' = "notify"
            /\ loop' = [loop EXCEPT ![c] = "onError"]
            /\ UNCHANGED panicked
    /\ UNCHANGED <<cfgVars, loopErr, errCalls, initCalls, cbResult, ret, first,
                   callVars, envVars, closedSinceCall, lateVars>>

\* A closeAllAndNotify that reopens the stream after telling OnError.
NotifyOnError_Reconnects(c) ==
    /\ ~panicked
    /\ UNCHANGED evalVars
    /\ loop[c] = "onError"
    /\ errCalls' = [errCalls EXCEPT ![c] = IF hasErr THEN @ + 1 ELSE @]
    /\ lock' = "free"
    /\ loop' = [loop EXCEPT ![c] = "select"]
    /\ stream' = [stream EXCEPT ![c] = "open"]
    /\ UNCHANGED <<cfgVars, stopCh, stopClosed, streamCloses, loopErr, initCalls, cbResult,
                   ret, first, callVars, envVars, panicked, closedSinceCall, lateVars>>

\* Lines 122-125: OnError, if set, is called with the lock held; the deferred
\* unlock runs and the loop goroutine ends.
NotifyOnError(c) ==
    /\ ~panicked
    /\ UNCHANGED evalVars
    /\ loop[c] = "onError"
    /\ errCalls' = [errCalls EXCEPT ![c] = IF hasErr THEN @ + 1 ELSE @]
    /\ lock' = "free"
    /\ loop' = [loop EXCEPT ![c] = "done"]
    /\ UNCHANGED <<cfgVars, stopCh, stopClosed, stream, streamCloses, loopErr, initCalls, cbResult,
                   ret, first, callVars, envVars, panicked, closedSinceCall, lateVars>>

\* Line 123: OnError is called with the lock held and calls Connect() or
\* Close() on the same client; that call blocks at a.lock.Lock() (lines 52,
\* 180), the mutex not being reentrant.
OnErrorReenter(c) ==
    /\ ~panicked
    /\ UNCHANGED evalVars
    /\ loop[c] = "onError"
    /\ hasErr
    /\ errCalls' = [errCalls EXCEPT ![c] = @ + 1]
    /\ loop' = [loop EXCEPT ![c] = "reentered"]
    /\ UNCHANGED <<cfgVars, lock, stopCh, stopClosed, stream, streamCloses, loopErr, initCalls, cbResult,
                   ret, first, callVars, envVars, panicked, closedSinceCall, lateVars>>

\* Line 144: a spawned "go func() {a.OnUpdate(flags)}()" runs.
DeliverUpdate(c, v) ==
    /\ ~panicked
    /\ UNCHANGED evalVars
    /\ <<c, v>> \in pending
    /\ pending' = pending \ {<<c, v>>}
    /\ store' = v
    /\ updCalls' = [updCalls EXCEPT ![c] = @ \cup {v}]
    /\ lateUpd' = [lateUpd EXCEPT
                     ![c].afterClose = IF c \in stoppedByClose THEN @ + 1 ELSE @,
                     ![c].afterRelease = IF c \in stoppedByClose /\ loop[c] = "done" THEN @ + 1 ELSE @]
    /\ UNCHANGED <<cfgVars, lock, stopCh, connVars, callVars, nextVer, bad, panicked, closedSinceCall,
                   stoppedByClose>>

\* ------------------------------------------------------------ EvaluateV2
Nil == "nil-map"
userGroupType == "User"
FlagKeys == {"banner", "checkout-button", "holdout"}
CohortIds == {"c1"}
Members == {"u1", "g1"}
NoCohorts == [t \in {} |-> {}]
NoGroups == [t \in {} |-> <<>>]

\* The snapshots the storage may hold: every dependency present, a dependency
\* missing, a dependency cycle, a single flag without cohorts.
SnapOk ==
    [k \in {"banner", "checkout-button", "holdout"} |->
        CASE k = "banner" -> [deps |-> <<>>, cohorts |-> [t \in {userGroupType} |-> {"c1"}]]
          [] k = "checkout-button" -> [deps |-> <<"holdout">>, cohorts |-> NoCohorts]
          [] OTHER -> [deps |-> <<>>, cohorts |-> [t \in {"org"} |-> {"c1"}]]]
SnapMissing ==
    [k \in {"banner", "checkout-button"} |->
        CASE k = "banner" -> [deps |-> <<>>, cohorts |-> NoCohorts]
          [] OTHER -> [deps |-> <<"holdout">>, cohorts |-> [t \in {"org"} |-> {"c1"}]]]
SnapCycle ==
    [k \in {"banner", "checkout-button", "holdout"} |->
        CASE k = "banner" -> [deps |-> <<>>, cohorts |-> NoCohorts]
          [] k = "checkout-button" -> [deps |-> <<"holdout">>, cohorts |-> NoCohorts]
          [] OTHER -> [deps |-> <<"checkout-button">>, cohorts |-> NoCohorts]]
SnapPlain ==
    [k \in {"banner"} |-> [deps |-> <<>>, cohorts |-> NoCohorts]]
Snapshots == {SnapOk, SnapMissing, SnapCycle, SnapPlain}

KeySeqs == {<<"checkout-button">>, <<"banner", "checkout-button">>, <<"holdout", "banner">>}
UserIds == {"", "u1"}
GroupMaps == {NoGroups, [t \in {"org"} |-> <<"g1">>]}

\* Values an evaluation result may carry, with the text Go renders them to.
Values ==
    {[tag |-> "nil", text |-> "", json |-> "null"],
     [tag |-> "string", text |-> "on", json |-> "\"on\""],
     [tag |-> "map", text |-> "map[k:1]", json |-> "{\"k\":1}"]}

Range(q) == {q[i] : i \in 1..Len(q)}

\* topologicalSort(flags, flagKeys): the requested flags that are in the
\* snapshot, each after the flags it depends on; a cycle or a dependency that
\* is not in the snapshot is an error.  order is what was placed before it.
RECURSIVE parentTraversal(_, _, _, _)
parentTraversal(flags, todo, path, acc) ==
    IF todo = <<>> THEN [err |-> "nil", order |-> acc]
    ELSE LET key == Head(todo) IN
         IF key \notin DOMAIN flags THEN [err |-> "missing", order |-> acc]
         ELSE IF key \in Range(path) THEN [err |-> "cycle", order |-> acc]
         ELSE IF key \in Range(acc) THEN parentTraversal(flags, Tail(todo), path, acc)
         ELSE LET r == parentTraversal(flags, flags[key].deps, Append(path, key), acc) IN
              IF r.err # "nil" THEN r
              ELSE parentTraversal(flags, Tail(todo), path, Append(r.order, key))

topologicalSort(flags, flagKeys) ==
    parentTraversal(flags, SelectSeq(flagKeys, LAMBDA k : k \in DOMAIN flags), <<>>, <<>>)

\* getGroupedCohortIDsFromFlags: group type -> every cohort id a flag names.
getGroupedCohortIDsFromFlags(flags) ==
    LET types == UNION {DOMAIN flags[k].cohorts : k \in DOMAIN flags} IN
    [t \in types |-> UNION {flags[k].cohorts[t] : k \in {x \in DOMAIN flags : t \in DOMAIN flags[x].cohorts}}]

\* CohortStorage.GetCohortsForUser / GetCohortsForGroup: the candidates the
\* member belongs to.
GetCohortsFor(member, candidateIds) ==
    {id \in candidateIds : id \in DOMAIN cohortStore /\ member \in cohortStore[id]}

\* Lines 399-428: enrichUser sets user.CohortIds when the flags name
\* user-level cohorts and UserId is not empty, and adds the cohort ids of the
\* first group name of each group type the flags name cohorts for.
enrichUser(u, flagConfigs) ==
    LET grouped == getGroupedCohortIDsFromFlags(flagConfigs)
        types == {t \in DOMAIN u.Groups :
                     /\ Len(u.Groups[t]) > 0
                     /\ u.Groups[t][1] # ""
                     /\ t \in DOMAIN grouped}
        added == {<<t, u.Groups[t][1]>> : t \in types}
    IN [u EXCEPT
          !.CohortIds =
              IF userGroupType \in DOMAIN grouped /\ grouped[userGroupType] # {} /\ u.UserId # ""
              THEN GetCohortsFor(u.UserId, grouped[userGroupType])
              ELSE @,
          !.GroupCohortIds =
              [x \in DOMAIN @ \cup added |->
                  IF x \in added THEN GetCohortsFor(x[2], grouped[x[1]]) ELSE @[x]]]

\* Lines 385-397: coerceString.
coerceString(value) ==
    IF value.tag = "nil" THEN ""
    ELSE IF value.tag \in {"map", "slice", "array"} THEN value.json
    ELSE value.text

\* No EvaluateV2 call has been made.
NoEval ==
    /\ user = [UserId |-> "", Groups |-> NoGroups, CohortIds |-> {}, GroupCohortIds |-> NoCohorts]
    /\ epc = "idle"
    /\ eFlagConfigs = Nil
    /\ eKeys = <<>>
    /\ eSorted = <<>>
    /\ eVariants = Nil
    /\ eRet = [variants |-> Nil, err |-> "none"]
    /\ eEngine = FALSE
    /\ eTracked = FALSE
    /\ nEval = 0
    /\ eReads = {}

EvalIdle ==
    /\ snapshot = SnapOk
    /\ cohortStore = [id \in CohortIds |-> {}]
    /\ hasAS = FALSE
    /\ NoEval

\* Lines 175-176: a caller passes its User and flagKeys; GetFlagConfigs().
EvalCall ==
    /\ epc \in {"idle", "done"}
    /\ nEval < MaxEval
    /\ \E uid \in UserIds, groups \in GroupMaps, keys \in KeySeqs :
         /\ user' = [user EXCEPT !.UserId = uid, !.Groups = groups]
         /\ eKeys' = keys
    /\ eFlagConfigs' = snapshot
    /\ eSorted' = <<>>
    /\ eVariants' = Nil
    /\ eRet' = [variants |-> Nil, err |-> "none"]
    /\ eEngine' = FALSE
    /\ eTracked' = FALSE
    /\ nEval' = nEval + 1
    /\ eReads' = {}
    /\ epc' = "enrich"
    /\ UNCHANGED <<streamVars, svcVars, snapshot, cohortStore, hasAS>>

\* Lines 177-181: enrichUser mutates the caller's User; its error is nil.
EvalEnrich ==
    /\ epc = "enrich"
    /\ user' = enrichUser(user, eFlagConfigs)
    /\ eReads' = eReads \cup {<<"enrich", eFlagConfigs>>}
    /\ epc' = "sort"
    /\ UNCHANGED <<streamVars, svcVars, snapshot, cohortStore, hasAS, eFlagConfigs, eKeys, eSorted, eVariants,
                   eRet, eEngine, eTracked, nEval>>

\* An EvaluateV2 that goes on with what was ordered before the error.
EvalSort_IgnoresError ==
    /\ epc = "sort"
    /\ eReads' = eReads \cup {<<"sort", eFlagConfigs>>}
    /\ eSorted' = topologicalSort(eFlagConfigs, eKeys).order
    /\ epc' = "engine"
    /\ UNCHANGED <<streamVars, svcVars, snapshot, cohortStore, hasAS, user, eFlagConfigs, eKeys, eVariants,
                   eRet, eEngine, eTracked, nEval>>

\* An EvaluateV2 that asks the storage again for the flags it orders.
EvalSort_RereadsStorage ==
    /\ epc = "sort"
    /\ eReads' = eReads \cup {<<"sort", snapshot>>}
    /\ LET r == topologicalSort(snapshot, eKeys) IN
       IF r.err # "nil"
       THEN /\ eRet' = [variants |-> Nil, err |-> r.err]
            /\ epc' = "done"
            /\ UNCHANGED eSorted
       ELSE /\ eSorted' = r.order
            /\ epc' = "engine"
            /\ UNCHANGED eRet
    /\ UNCHANGED <<streamVars, svcVars, snapshot, cohortStore, hasAS, user, eFlagConfigs, eKeys, eVariants,
                   eEngine, eTracked, nEval>>

\* Lines 182-187: topologicalSort; its error is returned with a nil map.
EvalSort ==
    /\ epc = "sort"
    /\ eReads' = eReads \cup {<<"sort", eFlagConfigs>>}
    /\ LET r == topologicalSort(eFlagConfigs, eKeys) IN
       IF r.err # "nil"
       THEN /\ eRet' = [variants |-> Nil, err |-> r.err]
            /\ epc' = "done"
            /\ UNCHANGED eSorted
       ELSE /\ eSorted' = r.order
            /\ epc' = "engine"
            /\ UNCHANGED eRet
    /\ UNCHANGED <<streamVars, svcVars, snapshot, cohortStore, hasAS, user, eFlagConfigs, eKeys, eVariants,
                   eEngine, eTracked, nEval>>

\* Lines 189-198: the engine evaluates the sorted flags (one result each) and
\* every result becomes a variant with its value coerced to a string.
EvalEngine ==
    /\ epc = "engine"
    /\ \E value \in Values :
         LET results == [k \in Range(eSorted) |-> [Key |-> "on", Value |-> value]] IN
         eVariants' = [k \in DOMAIN results |->
                          [Key |-> results[k].Key, Value |-> coerceString(results[k].Value)]]
    /\ eEngine' = TRUE
    /\ eReads' = eReads \cup {<<"engine", [k \in Range(eSorted) |-> eFlagConfigs[k]]>>}
    /\ epc' = "track"
    /\ UNCHANGED <<streamVars, svcVars, snapshot, cohortStore, hasAS, user, eFlagConfigs, eKeys, eSorted,
                   eRet, eTracked, nEval>>

\* Lines 199-202: the assignment is tracked if configured; variants, nil.
EvalTrack ==
    /\ epc = "track"
    /\ eTracked' = hasAS
    /\ eRet' = [variants |-> eVariants, err |-> "nil"]
    /\ epc' = "done"
    /\ UNCHANGED <<streamVars, svcVars, snapshot, cohortStore, hasAS, user, eFlagConfigs, eKeys, eSorted,
                   eVariants, eEngine, nEval, eReads>>

\* The deployment runner publishes a snapshot (atomic replacement).
Publish ==
    /\ \E s \in Snapshots : s # snapshot /\ snapshot' = s
    /\ UNCHANGED <<streamVars, svcVars, cohortStore, hasAS, user, epc, eFlagConfigs, eKeys, eSorted, eVariants,
                   eRet, eEngine, eTracked, nEval, eReads>>

\* The cohort loader stores a cohort's membership.
CohortSync ==
    /\ \E id \in CohortIds, m \in SUBSET Members :
         /\ cohortStore[id] # m
         /\ cohortStore' = [cohortStore EXCEPT ![id] = m]
    /\ UNCHANGED <<streamVars, svcVars, snapshot, hasAS, user, epc, eFlagConfigs, eKeys, eSorted, eVariants,
                   eRet, eEngine, eTracked, nEval, eReads>>

\* ------------------------------------------------------- AssignmentService
\* Line 8.
DayMillis == 24 * 60 * 60 * 1000

Trackers == {"t1", "t2"}
Times == {DayMillis - 1, DayMillis}
TrackUsers == {[UserId |-> "u1", DeviceId |-> "d1"], [UserId |-> "u2", DeviceId |-> "d1"]}
MutualExclusionGroup == "mutual-exclusion-group"

\* A result: the flag's type, whether the variant is the default one, and
\* the variant's key.
Result(type, isDefault, key) ==
    [Type |-> type, IsDefaultVariant |-> isDefault, Variant |-> [Key |-> key]]

\* The result sets the Track callers pass.
TrackResults ==
    {[k \in {"banner", "group-a"} |->
         IF k = "banner" THEN Result("experiment", FALSE, v)
         ELSE Result(MutualExclusionGroup, FALSE, "slot-1")] : v \in {"on", "off"}}

NoAssignment == [user |-> [UserId |-> "", DeviceId |-> ""], results |-> <<>>, timestamp |-> 0]

\* Assignment.Canonicalize: user id, device id and the "flagKey.variant"
\* pairs of all results (a set here: the rendering orders them by key).
Canonicalize(assignment) ==
    [user |-> assignment.user.UserId,
     device |-> assignment.user.DeviceId,
     pairs |-> {<<k, assignment.results[k].Variant.Key>> : k \in DOMAIN assignment.results}]

\* Line 55: InsertID = "<user> <device> <hashCode(canonical)> <day bucket>".
\* The hash stands as the canonical rendering it is computed from.
InsertID(assignment) ==
    <<assignment.user.UserId, assignment.user.DeviceId, Canonicalize(assignment),
      assignment.timestamp \div DayMillis>>

\* A toEvent that also writes mutual-exclusion-group results to the user
\* properties.
toEvent_TracksGroups(assignment) ==
    LET results == assignment.results
        tracked == DOMAIN results
        setKeys == {k \in tracked : ~results[k].IsDefaultVariant}
        unsetKeys == {k \in tracked : results[k].IsDefaultVariant}
    IN [EventType |-> "[Experiment] Assignment",
        UserID |-> assignment.user.UserId,
        DeviceID |-> assignment.user.DeviceId,
        EventProperties |->
            [p \in {<<"%s.variant", k>> : k \in DOMAIN results} |-> results[p[2]].Variant.Key],
        UserProperties |->
            [op \in {"$set", "$unset"} |->
                IF op = "$set"
                THEN [p \in {<<"[Experiment] %s", k>> : k \in setKeys} |-> results[p[2]].Variant.Key]
                ELSE [p \in {<<"[Experiment] %s", k>> : k \in unsetKeys} |-> "-"]],
        InsertID |-> InsertID(assignment)]

\* Lines 21-57: toEvent.  "%s.variant" and "[Experiment] %s" are kept as the
\* format with its argument.
toEvent(assignment) ==
    LET results == assignment.results
        tracked == {k \in DOMAIN results : results[k].Type # MutualExclusionGroup}
        setKeys == {k \in tracked : ~results[k].IsDefaultVariant}
        unsetKeys == {k \in tracked : results[k].IsDefaultVariant}
    IN [EventType |-> "[Experiment] Assignment",
        UserID |-> assignment.user.UserId,
        DeviceID |-> assignment.user.DeviceId,
        EventProperties |->
            [p \in {<<"%s.variant", k>> : k \in DOMAIN results} |-> results[p[2]].Variant.Key],
        UserProperties |->
            [op \in {"$set", "$unset"} |->
                IF op = "$set"
                THEN [p \in {<<"[Experiment] %s", k>> : k \in setKeys} |-> results[p[2]].Variant.Key]
                ELSE [p \in {<<"[Experiment] %s", k>> : k \in unsetKeys} |-> "-"]],
        InsertID |-> InsertID(assignment)]

\* The filter's identity of an assignment: user id, device id, canonical
\* rendering and day bucket.
Identity(assignment) == InsertID(assignment)

\* AssignmentFilter.shouldTrack, one serialized check-and-record: an identity
\* in the cache is suppressed (and becomes the most recently used); any other
\* is recorded, evicting the least recently used one when the cache is full.
shouldTrack(cache, assignment) ==
    LET id == Identity(assignment)
        others == SelectSeq(cache, LAMBDA x : x # id)
    IN IF id \in Range(cache)
       THEN [pass |-> FALSE, cache |-> <<id>> \o others, evicted |-> <<>>]
       ELSE IF Len(cache) >= CacheCapacity
       THEN [pass |-> TRUE,
             cache |-> <<id>> \o SubSeq(cache, 1, CacheCapacity - 1),
             evicted |-> SubSeq(cache, CacheCapacity, Len(cache))]
       ELSE [pass |-> TRUE, cache |-> <<id>> \o cache, evicted |-> <<>>]

TrackIdle ==
    /\ now = DayMillis - 1
    /\ filter = <<>>
    /\ evictLog = <<>>
    /\ emitted = <<>>
    /\ tpc = [t \in Trackers |-> "idle"]
    /\ tAsg = [t \in Trackers |-> NoAssignment]
    /\ tDone = {}
    /\ nTrack = 0

\* The results toEvent is applied to: any results for up to two flags.
ResultKeys == {"banner", "group-a"}
Results ==
    {Result(type, isDefault, key) :
        type \in {"experiment", MutualExclusionGroup}, isDefault \in BOOLEAN, key \in {"on", "off"}}
ResultSets == UNION {[ks -> Results] : ks \in SUBSET ResultKeys}
Assignments ==
    {[user |-> u, results |-> r, timestamp |-> t] : u \in TrackUsers, r \in ResultSets, t \in Times}
NoEvent == [EventType |-> ""]

EventIdle ==
    /\ evAsg = NoAssignment
    /\ evOut = NoEvent

\* ------------------------------------------------------------- Initialize
InitCallers == {"g1", "g2"}
ApiKeys == {"", "k1", "k2"}
Configs == {"cfgA", "cfgB"}

\* Lines 79-80: an empty registry, an unlocked mutex.
RegIdle ==
    /\ clients = [k \in ApiKeys |-> 0]
    /\ initMutex = "free"
    /\ ipc = [g \in InitCallers |-> "idle"]
    /\ iKey = [g \in InitCallers |-> ""]
    /\ iCfg = [g \in InitCallers |-> "cfgA"]
    /\ iClient = [g \in InitCallers |-> 0]
    /\ inst = <<>>
    /\ iRets = {}
    /\ nInit = 0

\* A goroutine calls Initialize(apiKey, config) and blocks on initMutex.
InitializeCall(g) ==
    /\ ipc[g] = "idle"
    /\ nInit < MaxInit
    /\ \E k \in ApiKeys, cfg \in Configs :
         /\ iKey' = [iKey EXCEPT ![g] = k]
         /\ iCfg' = [iCfg EXCEPT ![g] = cfg]
    /\ iClient' = [iClient EXCEPT ![g] = 0]
    /\ ipc' = [ipc EXCEPT ![g] = "waitLock"]
    /\ nInit' = nInit + 1
    /\ UNCHANGED <<streamVars, pipeVars, trackVars, eventVars, metaVars, clients, initMutex, inst, iRets>>

\* An Initialize that looks the key up without taking initMutex.
InitializeLock_NoMutex(g) ==
    /\ ipc[g] = "waitLock"
    /\ iClient' = [iClient EXCEPT ![g] = clients[iKey[g]]]
    /\ ipc' = [ipc EXCEPT ![g] = IF clients[iKey[g]] = 0 THEN "create" ELSE "unlock"]
    /\ UNCHANGED <<streamVars, pipeVars, trackVars, eventVars, metaVars, clients, initMutex, iKey, iCfg,
                   inst, iRets, nInit>>

\* Lines 98-100: initMutex.Lock(); client := clients[apiKey].
InitializeLock(g) ==
    /\ ipc[g] = "waitLock"
    /\ initMutex = "free"
    /\ initMutex' = g
    /\ iClient' = [iClient EXCEPT ![g] = clients[iKey[g]]]
    /\ ipc' = [ipc EXCEPT ![g] = IF clients[iKey[g]] = 0 THEN "create" ELSE "unlock"]
    /\ UNCHANGED <<streamVars, pipeVars, trackVars, eventVars, metaVars, clients, iKey, iCfg,
                   inst, iRets, nInit>>

\* Lines 101-138: an empty key panics (initMutex stays locked: there is no
\* deferred unlock); otherwise a Client is built from config and registered.
InitializeCreate(g) ==
    /\ ipc[g] = "create"
    /\ IF iKey[g] = ""
       THEN /\ ipc' = [ipc EXCEPT ![g] = "panic"]
            /\ UNCHANGED <<clients, iClient, inst>>
       ELSE /\ inst' = Append(inst, [apiKey |-> iKey[g], config |-> iCfg[g]])
            /\ iClient' = [iClient EXCEPT ![g] = Len(inst) + 1]
            /\ clients' = [clients EXCEPT ![iKey[g]] = Len(inst) + 1]
            /\ ipc' = [ipc EXCEPT ![g] = "unlock"]
    /\ UNCHANGED <<streamVars, pipeVars, trackVars, eventVars, metaVars, initMutex, iKey, iCfg,
                   iRets, nInit>>

\* Lines 140-141: initMutex.Unlock(); return client.
InitializeUnlock(g) ==
    /\ ipc[g] = "unlock"
    /\ initMutex' = "free"
    /\ iRets' = iRets \cup {[apiKey |-> iKey[g], config |-> iCfg[g], client |-> iClient[g]]}
    /\ ipc' = [ipc EXCEPT ![g] = "idle"]
    /\ UNCHANGED <<streamVars, pipeVars, trackVars, eventVars, metaVars, clients, iKey, iCfg, iClient,
                   inst, nInit>>

\* The caller recovers the panic of Initialize("") and goes on.
InitializeRecover(g) ==
    /\ ipc[g] = "panic"
    /\ ipc' = [ipc EXCEPT ![g] = "idle"]
    /\ UNCHANGED <<streamVars, pipeVars, trackVars, eventVars, metaVars, clients, initMutex, iKey, iCfg,
                   iClient, inst, iRets, nInit>>

\* ------------------------------------------------------------ FlagMetadata
MetaFlagKeys == {"banner", "ghost"}
MetaKeys == {"default", "deployed"}
MetaValues == {"true", "false"}
EmptyMap == [k \in {} |-> "true"]
MetaMaps == UNION {[ks -> MetaValues] : ks \in SUBSET MetaKeys}
Ref(kind, addr) == [kind |-> kind, addr |-> addr]

\* No FlagMetadata call was made; the storage holds no flag.
MetaIdle ==
    /\ heap = <<>>
    /\ metaOf = [k \in MetaFlagKeys |-> Ref("absent", 0)]
    /\ stored0 = EmptyMap
    /\ mKey = ""
    /\ mRet = Ref("none", 0)
    /\ nMeta = 0
    /\ nMutate = 0

\* A FlagMetadata that hands out the stored map itself.
FlagMetadataCall_ReturnsStored ==
    /\ nMeta < MaxMeta
    /\ \E flagKey \in MetaFlagKeys :
         LET f == metaOf[flagKey] IN
         /\ mKey' = flagKey
         /\ IF f.kind = "absent"
            THEN /\ mRet' = Ref("nil", 0)
                 /\ UNCHANGED heap
            ELSE IF f.kind = "map"
            THEN /\ mRet' = f
                 /\ UNCHANGED heap
            ELSE /\ heap' = Append(heap, EmptyMap)
                 /\ mRet' = Ref("map", Len(heap) + 1)
    /\ nMeta' = nMeta + 1
    /\ UNCHANGED <<streamVars, pipeVars, trackVars, eventVars, regVars, metaOf, stored0, nMutate>>

\* Lines 219-231: nil when GetFlagConfig finds no flag; otherwise a new map
\* that receives every entry of f.Metadata (none when f.Metadata is nil).
FlagMetadataCall ==
    /\ nMeta < MaxMeta
    /\ \E flagKey \in MetaFlagKeys :
         LET f == metaOf[flagKey] IN
         /\ mKey' = flagKey
         /\ IF f.kind = "absent"
            THEN /\ mRet' = Ref("nil", 0)
                 /\ UNCHANGED heap
            ELSE LET src == IF f.kind = "map" THEN heap[f.addr] ELSE EmptyMap
                     metadata == [k \in DOMAIN src |-> src[k]]
                 IN /\ heap' = Append(heap, metadata)
                    /\ mRet' = Ref("map", Len(heap) + 1)
    /\ nMeta' = nMeta + 1
    /\ UNCHANGED <<streamVars, pipeVars, trackVars, eventVars, regVars, metaOf, stored0, nMutate>>

\* The caller adds, replaces or removes an entry of the map it got.
MutateReturned ==
    /\ mRet.kind = "map"
    /\ nMutate < MaxMutate
    /\ LET m == heap[mRet.addr] IN
       \/ \E k \in MetaKeys \cup {"note"}, v \in MetaValues :
            /\ ~(k \in DOMAIN m /\ m[k] = v)
            /\ heap' = [heap EXCEPT ![mRet.addr] =
                           [x \in DOMAIN m \cup {k} |-> IF x = k THEN v ELSE m[x]]]
       \/ \E k \in DOMAIN m :
            heap' = [heap EXCEPT ![mRet.addr] = [x \in DOMAIN m \ {k} |-> m[x]]]
    /\ nMutate' = nMutate + 1
    /\ UNCHANGED <<streamVars, pipeVars, trackVars, eventVars, regVars, metaOf, stored0, mKey, mRet, nMeta>>

SvcIdle == TrackIdle /\ EventIdle /\ RegIdle /\ MetaIdle

\* toEvent(assignment) is called.
BuildEvent ==
    /\ evOut = NoEvent
    /\ evOut' = toEvent(evAsg)
    /\ UNCHANGED <<streamVars, pipeVars, trackVars, regVars, metaVars, evAsg>>

\* A goroutine builds an assignment (its timestamp is the current time) and
\* calls Track.
TrackCall(t) ==
    /\ tpc[t] = "idle"
    /\ nTrack < MaxTrack
    /\ \E u \in TrackUsers, r \in TrackResults :
         tAsg' = [tAsg EXCEPT ![t] = [user |-> u, results |-> r, timestamp |-> now]]
    /\ tpc' = [tpc EXCEPT ![t] = "check"]
    /\ nTrack' = nTrack + 1
    /\ UNCHANGED <<streamVars, pipeVars, eventVars, regVars, metaVars, now, filter, evictLog, emitted, tDone>>

\* A Track that emits whatever the filter answers.
TrackCheck_IgnoresFilter(t) ==
    /\ tpc[t] = "check"
    /\ LET r == shouldTrack(filter, tAsg[t]) IN
       /\ filter' = r.cache
       /\ evictLog' = evictLog \o r.evicted
       /\ tpc' = [tpc EXCEPT ![t] = "emit"]
       /\ UNCHANGED tDone
    /\ UNCHANGED <<streamVars, pipeVars, eventVars, regVars, metaVars, now, emitted, tAsg, nTrack>>

\* Line 16: s.Filter.shouldTrack(assignment); Track returns when it is false.
TrackCheck(t) ==
    /\ tpc[t] = "check"
    /\ LET r == shouldTrack(filter, tAsg[t]) IN
       /\ filter' = r.cache
       /\ evictLog' = evictLog \o r.evicted
       /\ IF r.pass
          THEN /\ tpc' = [tpc EXCEPT ![t] = "emit"]
               /\ UNCHANGED tDone
          ELSE /\ tpc' = [tpc EXCEPT ![t] = "idle"]
               /\ tDone' = tDone \cup {Identity(tAsg[t])}
    /\ UNCHANGED <<streamVars, pipeVars, eventVars, regVars, metaVars, now, emitted, tAsg, nTrack>>

\* Line 17: (*s.Amplitude).Track(toEvent(assignment)).
TrackEmit(t) ==
    /\ tpc[t] = "emit"
    /\ emitted' = Append(emitted, toEvent(tAsg[t]))
    /\ tpc' = [tpc EXCEPT ![t] = "idle"]
    /\ tDone' = tDone \cup {Identity(tAsg[t])}
    /\ UNCHANGED <<streamVars, pipeVars, eventVars, regVars, metaVars, now, filter, evictLog, tAsg, nTrack>>

\* Time passes.
Tick ==
    /\ \E t \in Times : t > now /\ now' = t
    /\ UNCHANGED <<streamVars, pipeVars, eventVars, regVars, metaVars, filter, evictLog, emitted, tpc, tAsg, tDone, nTrack>>

\* ---------------------------------------------------------- specification
\* The streaming client, with the evaluation side at rest.
Init == StreamInit /\ EvalIdle /\ SvcIdle

Next ==
    \/ ConnectCall
    \/ ConnectLock
    \/ ConnectFirstMsg
    \/ ConnectInitCallback
    \/ ConnectStreamErr
    \/ ConnectTimeout
    \/ ConnectStart
    \/ ConnectReturn
    \/ Close
    \/ \E c \in Conn : LoopStop(c)
    \/ \E c \in Conn : LoopRecvMsg(c)
    \/ \E c \in Conn : LoopRecvErr(c)
    \/ \E c \in Conn : NotifyLock(c)
    \/ \E c \in Conn : NotifyOnError(c)
    \/ \E c \in Conn : OnErrorReenter(c)
    \/ \E c \in Conn, v \in Ver : DeliverUpdate(c, v)

Spec == Init /\ [][Next]_vars

\* EvaluateV2 with concurrent publishes and cohort syncs, the streaming client
\* at rest.
EvalInit ==
    /\ StreamInit
    /\ hasInit /\ hasUpd /\ hasErr /\ urlOk
    /\ snapshot \in Snapshots
    /\ cohortStore \in [CohortIds -> SUBSET Members]
    /\ hasAS \in BOOLEAN
    /\ NoEval
    /\ SvcIdle

EvalNext ==
    \/ EvalCall
    \/ EvalEnrich
    \/ EvalSort
    \/ EvalEngine
    \/ EvalTrack
    \/ Publish
    \/ CohortSync

EvalSpec == EvalInit /\ [][EvalNext]_vars

\* Goroutines calling AssignmentService.Track while time passes; the rest of
\* the client at rest.
TrackInit ==
    /\ StreamInit
    /\ hasInit /\ hasUpd /\ hasErr /\ urlOk
    /\ EvalIdle
    /\ SvcIdle

TrackNext ==
    \/ \E t \in Trackers : TrackCall(t)
    \/ \E t \in Trackers : TrackCheck(t)
    \/ \E t \in Trackers : TrackEmit(t)
    \/ Tick

TrackSpec == TrackInit /\ [][TrackNext]_vars

\* toEvent applied to any assignment.
EventInit ==
    /\ StreamInit
    /\ hasInit /\ hasUpd /\ hasErr /\ urlOk
    /\ EvalIdle
    /\ TrackIdle
    /\ RegIdle
    /\ MetaIdle
    /\ evAsg \in Assignments
    /\ evOut = NoEvent

EventNext == BuildEvent

EventSpec == EventInit /\ [][EventNext]_vars

\* Goroutines calling Initialize; the clients they get are left at rest.
RegistryInit ==
    /\ StreamInit
    /\ hasInit /\ hasUpd /\ hasErr /\ urlOk
    /\ EvalIdle
    /\ SvcIdle

RegistryNext ==
    \/ \E g \in InitCallers : InitializeCall(g)
    \/ \E g \in InitCallers : InitializeLock(g)
    \/ \E g \in InitCallers : InitializeCreate(g)
    \/ \E g \in InitCallers : InitializeUnlock(g)
    \/ \E g \in InitCallers : InitializeRecover(g)

RegistrySpec == RegistryInit /\ [][RegistryNext]_vars

\* FlagMetadata on a storage that holds the flag "banner" (with any metadata,
\* or none) and not the flag "ghost", and callers changing the maps they got.
MetaInit ==
    /\ StreamInit
    /\ hasInit /\ hasUpd /\ hasErr /\ urlOk
    /\ EvalIdle
    /\ TrackIdle
    /\ EventIdle
    /\ RegIdle
    /\ \/ \E m \in MetaMaps :
            /\ heap = <<m>>
            /\ stored0 = m
            /\ metaOf = [k \in MetaFlagKeys |-> IF k = "banner" THEN Ref("map", 1) ELSE Ref("absent", 0)]
       \/ /\ heap = <<>>
          /\ stored0 = EmptyMap
          /\ metaOf = [k \in MetaFlagKeys |-> IF k = "banner" THEN Ref("nil", 0) ELSE Ref("absent", 0)]
    /\ mKey = ""
    /\ mRet = Ref("none", 0)
    /\ nMeta = 0
    /\ nMutate = 0

MetaNext ==
    \/ FlagMetadataCall
    \/ MutateReturned

MetaSpec == MetaInit /\ [][MetaNext]_vars

\* The goroutines make progress: a select whose case is ready is taken, a
\* goroutine that is not blocked runs, and sync.Mutex hands the lock to a
\* waiter (starvation mode).  Nothing obliges a caller to call Connect() or
\* Close(), nor the server to send a message or the transport to fail.
Fairness ==
    /\ SF_vars(ConnectLock)
    /\ WF_vars(ConnectFirstMsg \/ ConnectStreamErr \/ ConnectTimeout)
    /\ WF_vars(ConnectInitCallback)
    /\ WF_vars(ConnectStart)
    /\ WF_vars(ConnectReturn)
    /\ \A c \in Conn : WF_vars(LoopStop(c))
    /\ \A c \in Conn : SF_vars(NotifyLock(c))
    /\ \A c \in Conn : WF_vars(NotifyOnError(c))
    /\ \A c \in Conn : \A v \in Ver : WF_vars(DeliverUpdate(c, v))

FairSpec == Spec /\ Fairness

\* ------------------------------------------------------------------ claims
Running(c) == loop[c] \in {"select", "notifyWait", "onError"}
InitErrors == {"corrupt", "cbErr", "transportErr", "timeout"}
ExpectedInitCalls(c) ==
    IF hasInit THEN <<[cb |-> "OnInitUpdate", flags |-> first[c]]>>
    ELSE IF hasUpd THEN <<[cb |-> "OnUpdate", flags |-> first[c]]>>
    ELSE <<>>

\* C1: for every interleaving of Connect(), Close() and transport events the
\* stop channel of a connection is closed at most once and nothing panics.
C1_StopChClosedOnce ==
    /\ ~panicked
    /\ \A c \in Conn : stopClosed[c] <= 1

\* C2: at most one connection is active: never two open transports, never
\* two running background loops.
C2_OneActiveConnection ==
    /\ Cardinality({c \in Conn : stream[c] = "open"}) <= 1
    /\ Cardinality({c \in Conn : Running(c)}) <= 1

\* C3: update callbacks run in the order the messages were received, so the
\* store fed by them never moves back to an earlier snapshot.
C3_UpdatesInOrder == [][store' >= store]_vars

\* C4: when Connect() returns an error (first message malformed, callback
\* error, transport error, timeout) the transport has been closed exactly
\* once, no loop was started, a.stopCh is nil when it returns and OnError was
\* not invoked for it (nor does any OnError run while Connect() holds the
\* lock); on the success path the transport is left open.
C4_ConnectErrorCleansUp ==
    /\ cpc \in {"select", "callback", "start", "return"} =>
          (lock = "Connect" /\ \A c \in Conn : loop[c] # "onError")
    /\ \A c \in Conn :
        /\ ret[c] \in InitErrors =>
              /\ stream[c] = "closed"
              /\ streamCloses[c] = 1
              /\ loop[c] = "none"
              /\ stopClosed[c] = 0
              /\ errCalls[c] = 0
              /\ stopCh # c
              /\ (cur = c /\ cpc = "return" => stopCh = 0)
        /\ (cur = c /\ cpc = "return" /\ ret[c] = "nil") =>
              /\ stream[c] = "open"
              /\ streamCloses[c] = 0

\* C4 witness: a second Connect() has just failed on a malformed first
\* message while the first connection's loop is still there.
C4_Witness ==
    /\ cpc = "return"
    /\ cur = 2
    /\ ret[2] = "corrupt"
    /\ loop[1] # "none"

\* C5: a transport error reaching the loop makes OnError run exactly once for
\* that connection, after the transport is torn down and a.stopCh no longer
\* refers to the connection; a loop stopped by Close() never runs OnError.
C5_ErrorNotifiedOnce ==
    \A c \in Conn :
        /\ errCalls[c] <= 1
        /\ errCalls[c] = 1 => (stream[c] = "closed" /\ stopCh # c /\ loopErr[c] # "none")
        /\ (loopErr[c] = "none" /\ loop[c] = "done") => errCalls[c] = 0
        /\ (hasErr /\ loopErr[c] = "transport" /\ loop[c] \in {"done", "panicked"}) =>
              errCalls[c] = 1

\* C6: once a Close() has returned after the latest Connect() was called and
\* no call is in flight, eventually no loop runs and no transport is open
\* (unless a later call starts).
C6_CloseStopsEverything ==
    (closedSinceCall /\ cpc = "idle" /\ ~panicked)
        ~> (\/ panicked
            \/ cpc # "idle"
            \/ \A c \in Conn : ~Running(c) /\ stream[c] # "open")

\* C7: a malformed update after initialization never reaches the update
\* callback, the connection is torn down, OnError is told, nothing crashes.
C7_MalformedUpdateHandled ==
    /\ store \notin bad
    /\ \A c \in Conn :
        /\ updCalls[c] \cap bad = {}
        /\ \A v \in bad : <<c, v>> \notin pending
        /\ loopErr[c] = "corrupt" =>
              /\ loop[c] # "panicked"
              /\ loop[c] = "done" => (stream[c] = "closed" /\ (hasErr => errCalls[c] = 1))

\* C8: a first message that parses is handed to exactly one callback, once,
\* before Connect() returns: OnInitUpdate if set, otherwise OnUpdate if set;
\* the loop starts only after the callback returned nil, and a callback error
\* is what Connect() returns.
C8_InitialCallback ==
    \A c \in Conn :
        /\ Len(initCalls[c]) <= 1
        /\ (first[c] # 0 /\ ret[c] # "pending") => initCalls[c] = ExpectedInitCalls(c)
        /\ (loop[c] # "none" \/ (cur = c /\ cpc = "start")) =>
              /\ initCalls[c] = ExpectedInitCalls(c)
              /\ cbResult[c] = (IF hasInit \/ hasUpd THEN "nil" ELSE "none")
        /\ cbResult[c] = "cbErr" => (ret[c] = "cbErr" /\ loop[c] = "none")
        /\ ret[c] = "cbErr" => cbResult[c] = "cbErr"
        /\ initCalls[c] # <<>> => first[c] # 0

\* C8 witness: Connect() returned nil after handing the first message to
\* OnUpdate because OnInitUpdate is not set.
C8_Witness ==
    \E c \in Conn :
        /\ ret[c] = "nil"
        /\ cpc = "idle"
        /\ ~hasInit
        /\ initCalls[c] = <<[cb |-> "OnUpdate", flags |-> first[c]]>>

RECURSIVE Closure(_, _)
Closure(flags, S) ==
    LET n == S \cup UNION {Range(flags[k].deps) : k \in S \cap DOMAIN flags} IN
    IF n = S THEN S ELSE Closure(flags, n)

\* The request depends on a flag that is not in the snapshot, or on a cycle.
OrderingFails(flags, keys) ==
    LET reach == Closure(flags, Range(keys) \cap DOMAIN flags) IN
    \/ \E k \in reach : k \notin DOMAIN flags
    \/ \E k \in reach \cap DOMAIN flags : k \in Closure(flags, Range(flags[k].deps))

\* C10: when the ordering of the requested flags fails (cycle, or dependency
\* absent from the snapshot) EvaluateV2 returns the error and a nil map, has
\* not invoked the engine nor tracked an assignment, and no step of the call
\* changes the shared snapshot; a call that succeeds returns a variant for
\* every requested flag of the snapshot and every flag those depend on.
C10_OrderingErrorAborts ==
    /\ [](epc \in {"engine", "track", "done"} =>
            IF OrderingFails(eFlagConfigs, eKeys)
            THEN /\ epc = "done"
                 /\ eRet.variants = Nil
                 /\ eRet.err \notin {"nil", "none"}
                 /\ ~eEngine
                 /\ ~eTracked
            ELSE epc = "done" =>
                 /\ eRet.err = "nil"
                 /\ eEngine
                 /\ DOMAIN eRet.variants = Closure(eFlagConfigs, Range(eKeys) \cap DOMAIN eFlagConfigs))
    /\ [][epc' # epc => snapshot' = snapshot]_vars

\* C10 witness: banner and checkout-button were requested, banner could be
\* ordered, checkout-button depends on holdout, which is absent; the call
\* returned the error although assignment tracking is configured.
C10_Witness ==
    /\ epc = "done"
    /\ eFlagConfigs = SnapMissing
    /\ eKeys = <<"banner", "checkout-button">>
    /\ eRet.err = "missing"
    /\ hasAS

\* C11: within one EvaluateV2 call every use of the flag configuration
\* (cohort-id collection in enrichUser, topologicalSort, the flags handed to
\* the engine) works on the one snapshot the call read from the storage when
\* it began, whatever is published meanwhile: that snapshot is one of the
\* published ones, no step of the call replaces it, and the ordering it
\* evaluates is the ordering of that snapshot.
C11_OneSnapshotPerCall ==
    /\ [](/\ \A r \in eReads :
               /\ r[1] \in {"enrich", "sort", "engine"}
               /\ \A k \in DOMAIN r[2] : k \in DOMAIN eFlagConfigs /\ r[2][k] = eFlagConfigs[k]
               /\ r[1] # "engine" => r[2] = eFlagConfigs
          /\ epc # "idle" => eFlagConfigs \in Snapshots
          /\ epc \in {"engine", "track"} => eSorted = topologicalSort(eFlagConfigs, eKeys).order
          /\ epc \in {"sort", "engine", "track"} => \E r \in eReads : r[1] = "enrich"
          /\ epc = "track" => \E r \in eReads : r[1] = "engine")
    /\ [][/\ (epc \in {"idle", "done"} /\ epc' = "enrich") => eFlagConfigs' = snapshot
          /\ epc \notin {"idle", "done"} => eFlagConfigs' = eFlagConfigs]_vars

\* C11 witness: a call returned its variants after all three uses, and the
\* storage holds another snapshot than the one the call worked on.
C11_Witness ==
    /\ epc = "done"
    /\ eRet.err = "nil"
    /\ {r[1] : r \in eReads} = {"enrich", "sort", "engine"}
    /\ snapshot # eFlagConfigs
    /\ DOMAIN eRet.variants # {}

\* Events emitted with an identity, Track calls that passed the filter with
\* it (emitted or about to emit), and how often the cache evicted it.
EventsOf(id) == Cardinality({i \in DOMAIN emitted : emitted[i].InsertID = id})
Passed(id) == EventsOf(id) + Cardinality({t \in Trackers : tpc[t] = "emit" /\ Identity(tAsg[t]) = id})
Evictions(id) == Cardinality({i \in DOMAIN evictLog : evictLog[i] = id})
TrackedIds == tDone \cup {emitted[i].InsertID : i \in DOMAIN emitted}
                    \cup {Identity(tAsg[t]) : t \in {x \in Trackers : tpc[x] = "emit"}}

\* C12 as claimed: for any sequence of Track calls, sequential or
\* concurrent, one user/device/result set is emitted exactly once per day
\* bucket.
C12_OncePerDayBucket ==
    \A id \in TrackedIds :
        /\ Passed(id) <= 1
        /\ id \in tDone => Passed(id) = 1

\* C12 amended: an identity (user, device, result set, day bucket) passes the
\* filter once, and once more only each time the bounded cache has evicted
\* it; every Track call that returned has its identity emitted or passed, so
\* the same assignment after the day boundary is emitted again; two
\* concurrent identical calls never both pass.
C12_OncePerDayBucketUnlessEvicted ==
    \A id \in TrackedIds :
        /\ Passed(id) >= 1
        /\ Passed(id) <= 1 + Evictions(id)
        /\ id[4] \in {t \div DayMillis : t \in Times}

\* C12 witness: the same assignment was tracked three times, twice on one
\* day and once after midnight, nothing was evicted, two events went out.
C12_Witness ==
    /\ nTrack = 3
    /\ \A t \in Trackers : tpc[t] = "idle"
    /\ evictLog = <<>>
    /\ Len(emitted) = 2
    /\ emitted[1].UserID = emitted[2].UserID
    /\ emitted[1].InsertID[3] = emitted[2].InsertID[3]
    /\ emitted[1].InsertID[4] = 0
    /\ emitted[2].InsertID[4] = 1

\* C13: the event toEvent builds has one event property "<flagKey>.variant"
\* for every result, mutual-exclusion groups included; its $set and $unset
\* maps have no entry for a mutual-exclusion-group result, and every other
\* result is in exactly one of them: in $unset when it is the default
\* variant, in $set with its variant key otherwise.
C13_GroupsOnlyInEventProperties ==
    evOut # NoEvent =>
        LET rs == evAsg.results
            set == evOut.UserProperties["$set"]
            unset == evOut.UserProperties["$unset"]
        IN /\ DOMAIN evOut.EventProperties = {<<"%s.variant", k>> : k \in DOMAIN rs}
           /\ \A k \in DOMAIN rs :
                 LET up == <<"[Experiment] %s", k>> IN
                 /\ evOut.EventProperties[<<"%s.variant", k>>] = rs[k].Variant.Key
                 /\ rs[k].Type = MutualExclusionGroup =>
                       (up \notin DOMAIN set /\ up \notin DOMAIN unset)
                 /\ (rs[k].Type # MutualExclusionGroup /\ rs[k].IsDefaultVariant) =>
                       (up \in DOMAIN unset /\ up \notin DOMAIN set)
                 /\ (rs[k].Type # MutualExclusionGroup /\ ~rs[k].IsDefaultVariant) =>
                       (up \in DOMAIN set /\ set[up] = rs[k].Variant.Key /\ up \notin DOMAIN unset)
           /\ \A up \in DOMAIN set \cup DOMAIN unset :
                 up[1] = "[Experiment] %s" /\ up[2] \in DOMAIN rs

\* C13 witness: an event built from a default-variant result of an ordinary
\* flag and a non-default result of a mutual-exclusion group.
C13_Witness ==
    /\ evOut # NoEvent
    /\ DOMAIN evAsg.results = ResultKeys
    /\ evAsg.results["banner"].Type # MutualExclusionGroup
    /\ evAsg.results["banner"].IsDefaultVariant
    /\ evAsg.results["group-a"].Type = MutualExclusionGroup
    /\ ~evAsg.results["group-a"].IsDefaultVariant
    /\ DOMAIN evOut.EventProperties = {<<"%s.variant", "banner">>, <<"%s.variant", "group-a">>}

\* C14: Initialize is idempotent per non-empty API key: sequential or
\* concurrent calls with one key return one instance, calls with different
\* keys return different instances, every instance ever built is the
\* registry's entry for its key (never two for a key), and an instance keeps
\* the config of the call that built it whatever later calls pass.
C14_OneClientPerKey ==
    /\ [](/\ \A r1, r2 \in iRets : (r1.apiKey = r2.apiKey) <=> (r1.client = r2.client)
          /\ \A r \in iRets :
                /\ r.apiKey # ""
                /\ r.client \in DOMAIN inst
                /\ inst[r.client].apiKey = r.apiKey
                /\ clients[r.apiKey] = r.client
          /\ \A i \in DOMAIN inst : clients[inst[i].apiKey] = i
          /\ clients[""] = 0)
    /\ [][/\ \A i \in DOMAIN inst : i \in DOMAIN inst' /\ inst'[i] = inst[i]
          /\ \A k \in ApiKeys : clients[k] # 0 => clients'[k] = clients[k]]_vars

\* C14 witness: one key was initialized twice with different configs and got
\* the instance built from the first, and another key got another instance.
C14_Witness ==
    /\ \E r \in iRets : inst[r.client].config # r.config
    /\ \E r1, r2 \in iRets : r1.apiKey # r2.apiKey /\ r1.client # r2.client
    /\ \A g \in InitCallers : ipc[g] = "idle"

\* C19: Initialize releases initMutex on every exit path, the empty-key
\* panic included: whenever no call is between Lock and Unlock the mutex is
\* free, so a later call can take it.
C19_InitMutexReleased ==
    (\A g \in InitCallers : ipc[g] \in {"idle", "waitLock"}) => initMutex = "free"

\* The entries the storage holds for a flag's metadata.
StoredEntries(k) == IF metaOf[k].kind = "map" THEN heap[metaOf[k].addr] ELSE EmptyMap

\* C15: FlagMetadata returns nil exactly when the key is not in the storage;
\* otherwise it returns a map that is not the stored one and has the stored
\* entries when it is returned, and whatever the caller adds, replaces or
\* removes in it the stored metadata keeps the entries it was published with.
C15_MetadataIsACopy ==
    /\ [](/\ mRet.kind # "none" => (mRet.kind = "nil" <=> metaOf[mKey].kind = "absent")
          /\ mRet.kind = "map" =>
                /\ mRet.addr \in DOMAIN heap
                /\ \A k \in MetaFlagKeys : metaOf[k].kind = "map" => metaOf[k].addr # mRet.addr
          /\ StoredEntries("banner") = stored0)
    /\ [][(nMeta' # nMeta /\ mRet'.kind = "map") => heap'[mRet'.addr] = StoredEntries(mKey')]_vars

\* C15 witness: a caller got the metadata of a flag that has some and then
\* changed two entries of its copy.
C15_Witness ==
    /\ mRet.kind = "map"
    /\ mKey = "banner"
    /\ stored0 # EmptyMap
    /\ nMutate = 2
    /\ heap[mRet.addr] # stored0

\* C16: after Close() has returned, the connection it stopped delivers at
\* most one more message to the update callback, and none once its loop has
\* ended and released the transport.
C16_AtMostOneLateUpdate ==
    \A c \in Conn :
        /\ lateUpd[c].afterClose <= 1
        /\ lateUpd[c].afterRelease = 0

\* C17: a Connect() or Close() that OnError makes on the same client
\* completes: it never waits for the lock its own goroutine holds.
C17_CallFromOnErrorCompletes ==
    \A c \in Conn : loop[c] = "reentered" => lock # "notify"

\* C18: whenever a.lock is free, a.stopCh is nil or is the channel made by
\* the most recent Connect() that succeeded, and that channel is open.
C18_StopChFresh ==
    (lock = "free" /\ stopCh # 0) =>
        /\ stopClosed[stopCh] = 0
        /\ ret[stopCh] = "nil"
        /\ \A d \in Conn : ret[d] = "nil" => d <= stopCh

\* C18 witness: after two successful Connect() calls the lock is free, the
\* first connection's channel is closed and a.stopCh is the second's.
C18_Witness ==
    /\ lock = "free"
    /\ cpc = "idle"
    /\ stopCh = 2
    /\ ret[1] = "nil"
    /\ stopClosed[1] = 1
    /\ ~panicked

\* What the cohort store reports for the user and for the first group name
\* of each of the user's group types, over the cohorts the flags name.
ExpectedCohortIds(u, flags) ==
    LET grouped == getGroupedCohortIDsFromFlags(flags) IN
    IF userGroupType \in DOMAIN grouped /\ u.UserId # ""
    THEN GetCohortsFor(u.UserId, grouped[userGroupType])
    ELSE {}
ExpectedGroupCohortIds(flags, groupType, groupName) ==
    LET grouped == getGroupedCohortIDsFromFlags(flags) IN
    IF groupType \in DOMAIN grouped THEN GetCohortsFor(groupName, grouped[groupType]) ELSE {}
AttachedGroupCohortIds(u, groupType, groupName) ==
    IF <<groupType, groupName>> \in DOMAIN u.GroupCohortIds
    THEN u.GroupCohortIds[<<groupType, groupName>>]
    ELSE {}

\* C20: when enrichUser returns, the cohort ids attached to the User are
\* exactly the memberships the cohort store reports for the cohorts the
\* snapshot of this call names, also on a User reused from an earlier call:
\* nothing an earlier call attached remains.
C20_CohortsMatchStore ==
    [][(epc = "enrich" /\ epc' = "sort") =>
          /\ user'.CohortIds = ExpectedCohortIds(user', eFlagConfigs)
          /\ \A t \in DOMAIN user'.Groups :
                (Len(user'.Groups[t]) > 0 /\ user'.Groups[t][1] # "") =>
                    AttachedGroupCohortIds(user', t, user'.Groups[t][1])
                        = ExpectedGroupCohortIds(eFlagConfigs, t, user'.Groups[t][1])]_vars

====
